---- MODULE Spec2Model ----
(***************************************************************************)
(* Model of the AirBalticCard integration: the session client              *)
(* (airbalticcard_api.py), the polling glue of the config entry            *)
(* (__init__.py), the manual refresh button (button.py) and the            *)
(* credential validation of the config flow (config_flow.py).              *)
(*                                                                         *)
(* Every coroutine is a task; one action is the code that runs between     *)
(* two awaits of an HTTP request: it consumes the response of the request  *)
(* the task is waiting for and runs on to the next request or to the end   *)
(* of the call.  The server's responses are the inputs of the actions.     *)
(*                                                                         *)
(* The functions that touch no request are applied on their own, each to   *)
(* every input of a bounded set: the is-authenticated predicate, the       *)
(* normalization of credit texts, the parsing of the dashboard page, the   *)
(* mapping of legacy unique IDs and the migration of the entity registry.  *)
(***************************************************************************)
EXTENDS Integers, Sequences, FiniteSets, TLC

\* const.py
DEFAULT_SCAN_INTERVAL == 3600
DEFAULT_RETRY_INTERVAL == 3600
\* config_flow.py: smallest intervals the options flow accepts
MIN_SCAN_INTERVAL == 10
MIN_RETRY_INTERVAL == 5
\* airbalticcard_api.py: the only status _get_nonce accepts
HTTP_OK == 200

\* Number of distinct dashboard contents the server can show.
MaxSnap == 2

VARIABLES
    api,          \* per client: the fields of AirBalticCardAPI
    closed,       \* the HTTP sessions that have been closed
    expired,      \* per client: a dashboard response was judged not authenticated
                  \* and no login has succeeded since (history)
    task,         \* per task: where the coroutine is and what its call has done
    entry,        \* the config entry: load state and its two options
    coordinator,  \* the DataUpdateCoordinator of the entry
    last_refresh, \* outcome of the coordinator refresh that completed last (history)
    flow,         \* the config flow's user step: its input, errors["base"] and
                  \* its result, and the unique IDs of the entries that exist
    page,         \* input of the pure-function specification
    verdict,      \* its output
    input,        \* argument of the function a function specification applies
    output,       \* what the function returned
    entity_registry, \* per entity of the entry: its unique_id in the registry
    migrations,   \* number of runs of the migration so far
    device_registry, \* per device id: the device entry, if it exists
    entity_entries   \* per entity id: the config entry and the device of the entity

\* The variables of the function and registry specifications.
offline == <<input, output, entity_registry, migrations, device_registry, entity_entries>>

vars == <<api, closed, expired, task, entry, coordinator, last_refresh, flow, page, verdict,
          offline>>

-----------------------------------------------------------------------------
(* Pages.  A page is described by what the code looks for in it.           *)

ErrorRegions == {"none", "ul", "div"}
NonceFields  == {"absent", "empty", "value"}
\* The values the server puts into the nonce field of its login page.
NonceValues  == {"n1", "n2"}

\* err:        an <ul> or <div> of class woocommerce-error
\* incorrect:  some text node contains "incorrect"
\* invalid:    some text node contains "invalid" and "username"
\* a_text:     an <a> whose string contains "logout"
\* a_href:     an <a> whose href contains "logout"
\* nonce:      the <input name="woocommerce-login-nonce"> and its value
\* raw:        "logout" occurs in the lower-cased source of the page
Pages ==
    { p \in [err : ErrorRegions, incorrect : BOOLEAN, invalid : BOOLEAN,
             a_text : BOOLEAN, a_href : BOOLEAN, nonce : NonceFields,
             raw : BOOLEAN] :
        (p.a_text \/ p.a_href) => p.raw }

\* The error indicators of _is_logged_in (its first rule).
error_indicators(p) ==
    \/ p.err = "ul"
    \/ p.err = "div"
    \/ p.incorrect
    \/ p.invalid

is_logged_in(p) ==
    IF error_indicators(p) THEN FALSE
    ELSE IF p.a_text THEN TRUE
    ELSE IF p.a_href THEN TRUE
    ELSE IF p.nonce # "absent" THEN FALSE
    ELSE p.raw

\* The pages the server sends in the specifications of the client and of the
\* host: every combination of what the site itself puts on its account page
\* (the error list, a message with "incorrect", the log-out link, the login
\* form).  The steps of the client read a page only through is_logged_in.
ServerPages ==
    { p \in Pages : /\ p.err # "div"
                    /\ ~p.invalid
                    /\ ~p.a_text
                    /\ p.raw = p.a_href }

-----------------------------------------------------------------------------
(* Exceptions.                                                             *)

ValueErrors      == {"ValueError:invalid", "ValueError:reestablish"}
ConnectionErrors == {"ConnectionError:status", "ConnectionError:no_nonce",
                     "ConnectionError:empty_nonce"}
\* aiohttp raises asyncio.TimeoutError when timeout=15 expires; the client
\* catches nothing, so that is what its caller sees.
TimeoutErrors    == {"TimeoutError"}
Exceptions       == ValueErrors \cup ConnectionErrors \cup TimeoutErrors

-----------------------------------------------------------------------------
(* Clients, sessions and tasks.                                            *)

\* "entry": the client of async_setup_entry, given the host's shared session.
\* "flow":  the client of _async_validate_login, given no session.
\* "cli":   a client driven directly through its public methods.
Clients  == {"entry", "flow", "cli"}
Sessions == {"hass", "own_entry", "own_flow", "own_cli"}

new_session(c) ==
    CASE c = "entry" -> "own_entry"
      [] c = "flow"  -> "own_flow"
      [] OTHER       -> "own_cli"

\* "poll":   the coordinator's scheduled refresh (and the first refresh)
\* "manual": the refresh requested by the button
\* "user":   the user step of the config flow
\* "caller": a direct caller of the client's methods
HostTasks == {"poll", "manual", "user"}
Tasks     == HostTasks \cup {"caller"}

client_of(t) ==
    CASE t \in {"poll", "manual"} -> "entry"
      [] t = "user"               -> "flow"
      [] OTHER                    -> "cli"

Snapshots == 1 .. MaxSnap

NewAPI(s) == [session |-> s, own_session |-> FALSE, logged_in |-> FALSE,
              username |-> "user", password |-> "secret"]

\* What the user can enter in the form of the config flow.
Usernames == {"user", "other"}
Passwords == {"secret", "wrong"}

\* pc:           the response the task waits for ("idle": none)
\* op:           the operation the task runs
\* in_fetch:     get_sim_cards() has been entered
\* result:       how the client's call ended: "ok" or the exception
\* escaped:      the exception that left the operation, "none" if none did
\* log:          the HTTP requests of the client's call (login() or get_sim_cards())
\* verdicts:     the is-authenticated verdicts of get_sim_cards()'s dashboard responses
\* logins:       the login() calls get_sim_cards() has made
\* login_result: how the latest login() ended
\* nonce:        the nonce field of the login page the latest login() got with status 200
\* timed_out:    a request of the call ran into its timeout
\* contents:     the dashboard content of each of those responses, 0 for a page
\*               that is not the dashboard
\* returned:     the snapshot the call returned, 0 if none
\* posted:       the form data of the POST of the latest login(), NoPayload if
\*               it has sent none
NoPayload == [username |-> "", password |-> "", nonce |-> "", login |-> ""]

IdleTask == [pc |-> "idle", op |-> "none", in_fetch |-> FALSE, result |-> "none",
             escaped |-> "none", log |-> << >>, verdicts |-> << >>, logins |-> 0,
             login_result |-> "none", nonce |-> "none", timed_out |-> FALSE,
             contents |-> << >>, returned |-> 0, posted |-> NoPayload]

-----------------------------------------------------------------------------
(* AirBalticCardAPI: the parts of its methods that run without an await.   *)

\* _get_session: a client without a session creates one and owns it.
get_session(a, c) ==
    IF a.session = "none"
    THEN [a EXCEPT !.own_session = TRUE, !.session = new_session(c)]
    ELSE a

\* close(): the set of closed sessions after the call.
mut_close(c) ==
    IF api[c].session # "none" THEN closed \cup {api[c].session} ELSE closed

close(c) ==
    IF api[c].own_session /\ api[c].session # "none"
    THEN closed \cup {api[c].session}
    ELSE closed

\* _get_nonce after its GET: the exception it raises, or "ok".
mut_nonce_error(status, nonce) ==
    IF status # HTTP_OK THEN "ConnectionError:status"
    ELSE IF nonce \in {"absent", "empty"} THEN "ValueError:invalid"
    ELSE "ok"

nonce_error(status, nonce) ==
    IF status # HTTP_OK THEN "ConnectionError:status"
    ELSE IF nonce = "absent" THEN "ConnectionError:no_nonce"
    ELSE IF nonce = "empty" THEN "ConnectionError:empty_nonce"
    ELSE "ok"

\* login(): the form data of its POST.
mut_payload(a, nonce) ==
    [username |-> a.username, password |-> a.password, nonce |-> "", login |-> "Log in"]

payload(a, nonce) ==
    [username |-> a.username, password |-> a.password, nonce |-> nonce, login |-> "Log in"]

\* login() is entered: _get_session, then _get_nonce sends its GET.
CallLogin(r) ==
    [r EXCEPT !.pc = "nonce",
              !.logins = IF r.in_fetch THEN @ + 1 ELSE @,
              !.login_result = "none",
              !.nonce = "none",
              !.posted = NoPayload,
              !.log = Append(@, "GET login")]

\* get_sim_cards() is entered: _fetch_dashboard sends its first GET.
CallFetch(r) ==
    [r EXCEPT !.pc = "dash", !.in_fetch = TRUE, !.log = <<"GET dashboard">>,
              !.verdicts = << >>, !.logins = 0, !.contents = << >>]

\* _fetch_dashboard after login() returned: the one retry of the GET.
mut_retry_request(r) ==
    [r EXCEPT !.pc = "dash", !.log = Append(@, "GET dashboard")]

retry_request(r) ==
    [r EXCEPT !.pc = "retry", !.log = Append(@, "GET dashboard")]

\* login() raised e: how the call that task record r runs ends.  Neither
\* _fetch_dashboard nor get_sim_cards has a try around "await self.login()".
mut_login_raised(r, e) ==
    IF r.in_fetch THEN "ValueError:reestablish" ELSE e

login_raised(r, e) == e

\* _fetch_dashboard on the first response: the text is returned when it
\* passes the check, the session is reestablished when it does not.
mut_needs_reauth(v) == TRUE

needs_reauth(v) == ~v

\* _fetch_dashboard on the response of the retry.
mut_reestablish_check(v) == "ok"

reestablish_check(v) ==
    IF v THEN "ok" ELSE "ValueError:reestablish"

-----------------------------------------------------------------------------
(* The callers: what happens when the client's call returns or raises.     *)

\* async_update_data: the interval it leaves on the coordinator.
mut_interval_on_failure(cur) == cur

interval_on_failure(cur) ==
    IF cur # entry.retry_interval THEN entry.retry_interval ELSE cur

mut_interval_on_success(cur) == cur

interval_on_success(cur) ==
    IF cur # entry.scan_interval THEN entry.scan_interval ELSE cur

\* async_update_data: what it raises when login() or get_sim_cards() ended
\* with res ("except Exception as err: ... raise UpdateFailed").
mut_update_data_raises(res) ==
    IF res = "ok" THEN "none"
    ELSE IF res \in ValueErrors \cup ConnectionErrors THEN "UpdateFailed"
    ELSE res

update_data_raises(res) ==
    IF res = "ok" THEN "none" ELSE "UpdateFailed"

\* The end of a coordinator refresh: async_update_data returns the data or
\* raises UpdateFailed, which the coordinator records; a failed first
\* refresh makes the setup of the entry fail.
async_update_data(res, snap) ==
    /\ coordinator' =
         IF res = "ok"
         THEN [update_interval |-> interval_on_success(coordinator.update_interval),
               last_update_success |-> TRUE,
               last_exception |-> update_data_raises(res),
               data |-> snap]
         ELSE [coordinator EXCEPT
                 !.update_interval = interval_on_failure(@),
                 !.last_update_success = FALSE,
                 !.last_exception = update_data_raises(res)]
    /\ last_refresh' = IF res = "ok" THEN "ok" ELSE "failed"
    /\ entry' = [entry EXCEPT !.state =
                   IF @ = "setup"
                   THEN (IF res = "ok" THEN "loaded" ELSE "not_loaded")
                   ELSE @]
    /\ UNCHANGED flow

\* _async_validate_login: the exception it lets out for the one login raised.
mut_async_validate_login(res) ==
    IF res \in ValueErrors \cup ConnectionErrors THEN "InvalidAuth" ELSE res

async_validate_login(res) ==
    IF res \in ValueErrors THEN "InvalidAuth"
    ELSE IF res \in ConnectionErrors THEN "CannotConnect"
    ELSE res

\* async_step_user: errors["base"] for the exception of the validation.
step_user_error(exc) ==
    IF exc = "InvalidAuth" THEN "invalid_auth"
    ELSE IF exc = "CannotConnect" THEN "cannot_connect"
    ELSE "unknown"

\* _abort_if_unique_id_configured raises AbortFlow when an entry with the
\* unique ID exists.
abort_if_unique_id_configured(unique_id, configured) ==
    IF unique_id \in configured THEN "AbortFlow" ELSE "none"

\* async_step_user after the validation: the entry is created, or the form is
\* shown again with the error of the exception the try block raised.
async_step_user_end(res) ==
    /\ LET username == flow.user_input.username
           exc == IF res = "ok"
                  THEN abort_if_unique_id_configured(username, flow.configured)
                  ELSE async_validate_login(res)
       IN  flow' = IF exc = "none"
                   THEN [flow EXCEPT !.errors = "none", !.result = "create_entry",
                                     !.configured = @ \cup {username}]
                   ELSE [flow EXCEPT !.errors = step_user_error(exc),
                                     !.result = "form"]
    /\ UNCHANGED <<coordinator, entry, last_refresh>>

\* What leaves the operation when the client's call ended with res: the
\* coordinator turns UpdateFailed into a failed refresh (and a failed first
\* refresh into ConfigEntryNotReady), async_press and async_step_user catch
\* every exception, a direct caller gets the exception itself.
escapes(r, res) ==
    CASE r.op = "update"   -> IF res # "ok" /\ entry.state = "setup"
                              THEN "ConfigEntryNotReady" ELSE "none"
      [] r.op = "validate" -> "none"
      [] OTHER             -> IF res = "ok" THEN "none" ELSE res

\* The call of task t ends with res (and the snapshot it parsed).
Finish(t, r, res, snap) ==
    /\ task' = [task EXCEPT ![t] = [r EXCEPT !.pc = "idle", !.result = res,
                                             !.escaped = escapes(r, res),
                                             !.returned = snap]]
    /\ CASE r.op = "update"   -> async_update_data(res, snap)
         [] r.op = "validate" -> async_step_user_end(res)
         [] OTHER             -> UNCHANGED <<coordinator, entry, last_refresh, flow>>

\* The call of task t goes on to its next request.
Continue(t, r) ==
    /\ task' = [task EXCEPT ![t] = r]
    /\ UNCHANGED <<coordinator, entry, last_refresh, flow>>

\* The request task t waits for runs into timeout=15.
Timeout(t) ==
    Finish(t, [task[t] EXCEPT !.timed_out = TRUE,
                              !.login_result = IF task[t].pc \in {"nonce", "post"}
                                               THEN "TimeoutError" ELSE @],
           "TimeoutError", 0)

-----------------------------------------------------------------------------
(* The client's steps, one per awaited response.                           *)

Statuses == {HTTP_OK, 503}

\* _get_nonce receives the login page; login() goes on to its POST.
get_nonce(t) ==
    /\ task[t].pc = "nonce"
    /\ \/ \E status \in Statuses, nonce \in {"absent", "empty"} \cup NonceValues :
            LET r == [task[t] EXCEPT !.nonce = IF status = HTTP_OK THEN nonce ELSE @]
                e == nonce_error(status, nonce)
            IN  IF e # "ok"
                THEN Finish(t, [r EXCEPT !.login_result = e], login_raised(r, e), 0)
                ELSE Continue(t, [r EXCEPT !.pc = "post",
                                           !.posted = payload(api[client_of(t)], nonce),
                                           !.log = Append(@, "POST login")])
       \/ Timeout(t)
    /\ UNCHANGED <<api, closed, expired, page, verdict, offline>>

\* login() receives the response of its POST.
login(t) ==
    /\ task[t].pc = "post"
    /\ \/ Timeout(t) /\ UNCHANGED <<api, expired>>
       \/ \E p \in ServerPages :
            LET c == client_of(t)
                r == [task[t] EXCEPT !.login_result =
                        IF is_logged_in(p) THEN "ok" ELSE "ValueError:invalid"]
            IN  IF ~is_logged_in(p)
                THEN Finish(t, r, login_raised(r, "ValueError:invalid"), 0)
                     /\ UNCHANGED <<api, expired>>
                ELSE /\ api' = [api EXCEPT ![c].logged_in = TRUE]
                     /\ expired' = [expired EXCEPT ![c] = FALSE]
                     /\ IF r.in_fetch THEN Continue(t, retry_request(r))
                        ELSE IF r.op = "update" THEN Continue(t, CallFetch(r))
                        ELSE Finish(t, r, "ok", 0)
    /\ UNCHANGED <<closed, page, verdict, offline>>

\* _fetch_dashboard receives the response of its first GET.
fetch_dashboard(t) ==
    /\ task[t].pc = "dash"
    /\ \/ Timeout(t) /\ UNCHANGED expired
       \/ \E p \in ServerPages, snap \in Snapshots :
            LET c == client_of(t)
                v == is_logged_in(p)
                r == [task[t] EXCEPT !.verdicts = Append(@, v),
                                     !.contents = Append(@, IF v THEN snap ELSE 0)]
            IN  IF ~needs_reauth(v)
                THEN Finish(t, r, "ok", snap) /\ UNCHANGED expired
                ELSE /\ expired' = [expired EXCEPT ![c] = TRUE]
                     /\ Continue(t, CallLogin(r))
    /\ UNCHANGED <<api, closed, page, verdict, offline>>

\* _fetch_dashboard receives the response of its second GET.
fetch_dashboard_retry(t) ==
    /\ task[t].pc = "retry"
    /\ \/ Timeout(t) /\ UNCHANGED expired
       \/ \E p \in ServerPages, snap \in Snapshots :
            LET c == client_of(t)
                v == is_logged_in(p)
                r == [task[t] EXCEPT !.verdicts = Append(@, v),
                                     !.contents = Append(@, IF v THEN snap ELSE 0)]
            IN  /\ expired' = [expired EXCEPT ![c] = IF v THEN @ ELSE TRUE]
                /\ Finish(t, r, reestablish_check(v), IF v THEN snap ELSE 0)
    /\ UNCHANGED <<api, closed, page, verdict, offline>>

-----------------------------------------------------------------------------
(* The host side: setup and unload of the entry, the coordinator's         *)
(* refreshes, the button and the config flow.                              *)

ScanIntervals  == {MIN_SCAN_INTERVAL, DEFAULT_SCAN_INTERVAL}
RetryIntervals == {MIN_RETRY_INTERVAL, DEFAULT_RETRY_INTERVAL}

\* A refresh of the coordinator starts: async_update_data calls login().
StartUpdate(t) ==
    task' = [task EXCEPT ![t] = CallLogin([IdleTask EXCEPT !.op = "update"])]

\* async_setup_entry up to the await of the first refresh: a client on the
\* host's shared session, a coordinator at the scan interval.
async_setup_entry ==
    /\ entry.state = "not_loaded"
    /\ entry' = [entry EXCEPT !.state = "setup"]
    /\ api' = [api EXCEPT !["entry"] = get_session(NewAPI("hass"), "entry")]
    /\ expired' = [expired EXCEPT !["entry"] = FALSE]
    /\ coordinator' = [update_interval |-> entry.scan_interval,
                       last_update_success |-> TRUE,
                       last_exception |-> "none",
                       data |-> 0]
    /\ last_refresh' = "none"
    /\ StartUpdate("poll")
    /\ UNCHANGED <<closed, flow, page, verdict, offline>>

\* The coordinator's timer fires.
scheduled_refresh ==
    /\ entry.state = "loaded"
    /\ task["poll"].pc = "idle"
    /\ StartUpdate("poll")
    /\ UNCHANGED <<api, closed, expired, entry, coordinator, last_refresh, flow,
                   page, verdict, offline>>

\* AirBalticCardRefreshButton.async_press: async_request_refresh.
async_press ==
    /\ entry.state = "loaded"
    /\ task["manual"].pc = "idle"
    /\ StartUpdate("manual")
    /\ UNCHANGED <<api, closed, expired, entry, coordinator, last_refresh, flow,
                   page, verdict, offline>>

async_unload_entry ==
    /\ entry.state = "loaded"
    /\ entry' = [entry EXCEPT !.state = "unloaded"]
    /\ closed' = close("entry")
    /\ UNCHANGED <<api, expired, task, coordinator, last_refresh, flow, page, verdict, offline>>

\* async_step_user with user input: _async_validate_login builds a client
\* without a session and calls login() on it.
async_step_user ==
    /\ task["user"].pc = "idle"
    /\ \E username \in Usernames, password \in Passwords :
         /\ api' = [api EXCEPT !["flow"] =
                      get_session([NewAPI("none") EXCEPT !.username = username,
                                                         !.password = password],
                                  "flow")]
         /\ flow' = [flow EXCEPT !.errors = "none", !.result = "pending",
                                 !.user_input = [username |-> username,
                                                 password |-> password]]
    /\ closed' = closed \ {new_session("flow")}
    /\ expired' = [expired EXCEPT !["flow"] = FALSE]
    /\ task' = [task EXCEPT !["user"] = CallLogin([IdleTask EXCEPT !.op = "validate"])]
    /\ UNCHANGED <<entry, coordinator, last_refresh, page, verdict, offline>>

\* The entities of the entry: the two account sensors, the two sensors of a
\* SIM, the refresh button.
EntityKinds == {"account_credit", "total_sim_credit", "sim_balance", "sim_description",
                "refresh"}

\* The available property of an entity.
mut_available(kind) ==
    IF kind = "refresh" THEN TRUE ELSE coordinator.last_update_success

available(kind) == coordinator.last_update_success

-----------------------------------------------------------------------------
(* A client driven directly: any sequence of login(), get_sim_cards() and  *)
(* close() calls by one caller.                                            *)

call_login ==
    /\ task["caller"].pc = "idle"
    /\ api' = [api EXCEPT !["cli"] = get_session(@, "cli")]
    /\ task' = [task EXCEPT !["caller"] = CallLogin([IdleTask EXCEPT !.op = "login"])]
    /\ UNCHANGED <<closed, expired, entry, coordinator, last_refresh, flow, page, verdict, offline>>

call_get_sim_cards ==
    /\ task["caller"].pc = "idle"
    /\ api' = [api EXCEPT !["cli"] = get_session(@, "cli")]
    /\ task' = [task EXCEPT !["caller"] = CallFetch([IdleTask EXCEPT !.op = "fetch"])]
    /\ UNCHANGED <<closed, expired, entry, coordinator, last_refresh, flow, page, verdict, offline>>

call_close ==
    /\ task["caller"].pc = "idle"
    /\ closed' = close("cli")
    /\ task' = [task EXCEPT !["caller"] = [IdleTask EXCEPT !.op = "close", !.result = "ok"]]
    /\ UNCHANGED <<api, expired, entry, coordinator, last_refresh, flow, page, verdict, offline>>

-----------------------------------------------------------------------------
(* The is-authenticated predicate on its own.                              *)

check_page ==
    /\ verdict = "none"
    /\ verdict' = IF is_logged_in(page) THEN "authenticated" ELSE "not authenticated"
    /\ UNCHANGED <<api, closed, expired, task, entry, coordinator, last_refresh, flow, page, offline>>

-----------------------------------------------------------------------------
(* Specifications.                                                         *)

NoPage == [err |-> "none", incorrect |-> FALSE, invalid |-> FALSE, a_text |-> FALSE,
           a_href |-> FALSE, nonce |-> "absent", raw |-> FALSE]

NoFlow == [errors |-> "none", result |-> "none",
           user_input |-> [username |-> "", password |-> ""], configured |-> {}]

InitCommon ==
    /\ closed = {}
    /\ expired = [c \in Clients |-> FALSE]
    /\ task = [t \in Tasks |-> IdleTask]
    /\ entry \in [state : {"not_loaded"}, scan_interval : ScanIntervals,
                  retry_interval : RetryIntervals]
    /\ coordinator = [update_interval |-> entry.scan_interval,
                      last_update_success |-> TRUE, last_exception |-> "none",
                      data |-> 0]
    /\ last_refresh = "none"
    /\ flow = NoFlow

\* The function and registry specifications are not running.
InitOffline ==
    /\ input = << >>
    /\ output = << >>
    /\ entity_registry = << >>
    /\ migrations = 0
    /\ device_registry = << >>
    /\ entity_entries = << >>

\* The config entry in its host.
Init ==
    /\ InitCommon
    /\ api = [c \in Clients |-> NewAPI(IF c = "entry" THEN "hass" ELSE "none")]
    /\ page = NoPage
    /\ verdict = "none"
    /\ InitOffline

\* The tasks of the config entry.
EntryTasks == {"poll", "manual"}

Next ==
    \/ async_setup_entry
    \/ scheduled_refresh
    \/ async_press
    \/ async_unload_entry
    \/ \E t \in EntryTasks : get_nonce(t)
    \/ \E t \in EntryTasks : login(t)
    \/ \E t \in EntryTasks : fetch_dashboard(t)
    \/ \E t \in EntryTasks : fetch_dashboard_retry(t)

Spec == Init /\ [][Next]_vars

\* The config flow: the user step, submitted any number of times, with any
\* set of entries already there.  Its client shares nothing with the client
\* of a config entry.
InitFlow ==
    /\ closed = {}
    /\ expired = [c \in Clients |-> FALSE]
    /\ task = [t \in Tasks |-> IdleTask]
    /\ entry = [state |-> "not_loaded", scan_interval |-> DEFAULT_SCAN_INTERVAL,
                retry_interval |-> DEFAULT_RETRY_INTERVAL]
    /\ coordinator = [update_interval |-> entry.scan_interval,
                      last_update_success |-> TRUE, last_exception |-> "none",
                      data |-> 0]
    /\ last_refresh = "none"
    /\ \E configured \in SUBSET Usernames :
         flow = [NoFlow EXCEPT !.configured = configured]
    /\ api = [c \in Clients |-> NewAPI("none")]
    /\ page = NoPage
    /\ verdict = "none"
    /\ InitOffline

NextFlow ==
    \/ async_step_user
    \/ get_nonce("user")
    \/ login("user")

SpecFlow == InitFlow /\ [][NextFlow]_vars

\* One client, constructed with the host's session or with none, and one
\* caller of its methods.
InitClient ==
    /\ InitCommon
    /\ entry.scan_interval = DEFAULT_SCAN_INTERVAL
    /\ entry.retry_interval = DEFAULT_RETRY_INTERVAL
    /\ \E s \in {"none", "hass"} :
         api = [c \in Clients |-> NewAPI(IF c = "cli" THEN s ELSE "none")]
    /\ page = NoPage
    /\ verdict = "none"
    /\ InitOffline

NextClient ==
    \/ call_login
    \/ call_get_sim_cards
    \/ call_close
    \/ get_nonce("caller")
    \/ login("caller")
    \/ fetch_dashboard("caller")
    \/ fetch_dashboard_retry("caller")

SpecClient == InitClient /\ [][NextClient]_vars

\* Every page, judged once.
InitPage ==
    /\ InitCommon
    /\ entry.scan_interval = DEFAULT_SCAN_INTERVAL
    /\ entry.retry_interval = DEFAULT_RETRY_INTERVAL
    /\ api = [c \in Clients |-> NewAPI("none")]
    /\ page \in Pages
    /\ verdict = "none"
    /\ InitOffline

NextPage == check_page

SpecPage == InitPage /\ [][NextPage]_vars

-----------------------------------------------------------------------------
(* Properties.                                                             *)

\* The number of dashboard GETs in a request log.
DashboardGets(log) == Cardinality({i \in 1 .. Len(log) : log[i] = "GET dashboard"})

\* Task t has completed a get_sim_cards() whose first dashboard response was
\* judged not authenticated.
FetchReauthenticated(t) ==
    /\ task[t].pc = "idle"
    /\ task[t].in_fetch
    /\ Len(task[t].verdicts) >= 1
    /\ ~task[t].verdicts[1]

SecondVerdictFailed(t) ==
    /\ Len(task[t].verdicts) = 2
    /\ ~task[t].verdicts[2]

\* C1 as stated: a get_sim_cards() whose first dashboard response fails the
\* check has run login() exactly once and requested the dashboard exactly
\* once more; if the second response fails too it ended with the
\* "reestablish" ValueError after those four requests.
C1_RetryOnce ==
    \A t \in Tasks :
        FetchReauthenticated(t) =>
            /\ task[t].logins = 1
            /\ DashboardGets(task[t].log) = 2
            /\ SecondVerdictFailed(t) =>
                 /\ task[t].result = "ValueError:reestablish"
                 /\ Len(task[t].log) = 4

\* C1 amended: login() is run exactly once; the dashboard is requested once
\* more exactly when that login() returns, and not at all when it raises,
\* the call then failing with login()'s exception; a second failed check
\* ends the call with the "reestablish" ValueError after four requests.
C1_RetryOnceIfLoginReturns ==
    \A t \in Tasks :
        FetchReauthenticated(t) =>
            /\ task[t].logins = 1
            /\ task[t].login_result # "none"
            /\ task[t].login_result = "ok" => DashboardGets(task[t].log) = 2
            /\ task[t].login_result # "ok" =>
                 /\ DashboardGets(task[t].log) = 1
                 /\ task[t].result = task[t].login_result
            /\ SecondVerdictFailed(t) =>
                 /\ task[t].result = "ValueError:reestablish"
                 /\ Len(task[t].log) = 4

C1_Witness ==
    /\ FetchReauthenticated("caller")
    /\ SecondVerdictFailed("caller")
    /\ task["caller"].result = "ValueError:reestablish"

\* C2: the authenticated flag is false whenever the latest dashboard
\* response was judged not authenticated and no login has succeeded since.
C2_FlagRevertsOnExpiry ==
    \A c \in Clients : expired[c] => ~api[c].logged_in

\* C3: at most one login or fetch is in progress on a client at any time.
C3_OneCallInFlight ==
    \A c \in Clients :
        Cardinality({t \in Tasks : client_of(t) = c /\ task[t].pc # "idle"}) <= 1

\* C4 as stated: a get_sim_cards() call issues at most 3 HTTP requests.
C4_AtMostThreeRequests ==
    \A t \in Tasks : task[t].in_fetch => Len(task[t].log) <= 3

\* C4 amended: a get_sim_cards() call issues at most 4 HTTP requests: the
\* dashboard GET, the login-page GET, the login POST and the dashboard retry.
C4_AtMostFourRequests ==
    \A t \in Tasks :
        task[t].in_fetch =>
            /\ Len(task[t].log) <= 4
            /\ \A i \in 1 .. Len(task[t].log) :
                 task[t].log[i] = <<"GET dashboard", "GET login", "POST login",
                                    "GET dashboard">>[i]

C4_Witness ==
    /\ task["caller"].pc = "idle"
    /\ task["caller"].in_fetch
    /\ Len(task["caller"].log) = 4

\* Task t has completed a login() that got the login page with status 200
\* and without a usable nonce.
NonceMissing(t) ==
    /\ task[t].pc = "idle"
    /\ task[t].nonce \in {"absent", "empty"}

C6_CloseOnlyOwnSession ==
    /\ "hass" \notin closed
    /\ \A s \in closed : \E c \in Clients : api[c].own_session /\ api[c].session = s
    /\ (task["caller"].op = "close" /\ api["cli"].own_session) =>
           api["cli"].session \in closed

C6_Witness ==
    /\ task["caller"].op = "close"
    /\ api["cli"].session = "hass"
    /\ api["cli"].logged_in

C6_WitnessOwn ==
    /\ task["caller"].op = "close"
    /\ api["cli"].own_session
    /\ api["cli"].session \in closed

\* The priority order C7 states, with the site error region as its first rule.
StatedOrder(p) ==
    IF p.err # "none" THEN FALSE
    ELSE IF p.a_text \/ p.a_href THEN TRUE
    ELSE IF p.nonce # "absent" THEN FALSE
    ELSE p.raw

\* C7: the verdict on every page is the one of the first applicable signal
\* in the order error region, log-out anchor, nonce field, "logout" in the text.
C7_PriorityOrder ==
    verdict # "none" =>
        (verdict = "authenticated") = StatedOrder(page)

\* The step in which the manual refresh ends in failure.
ManualRefreshFails ==
    /\ task["manual"].pc # "idle"
    /\ task'["manual"].pc = "idle"
    /\ task'["manual"].result # "ok"

\* C8 as stated: a failed manual refresh is not raised to the caller of
\* async_press and leaves the coordinator's update interval, its
\* last-update-success flag and its data as they were.
C8_ManualFailureLeavesPollState ==
    [][ManualRefreshFails =>
          /\ task'["manual"].escaped = "none"
          /\ coordinator' = coordinator]_vars

\* C8 amended: a failed manual refresh is not raised to the caller of
\* async_press and leaves the coordinator's data as they were; it sets the
\* update interval to the retry interval and the last-update-success flag
\* to false, as a failed scheduled poll does.
C8_ManualFailureKeepsData ==
    [][ManualRefreshFails =>
          /\ task'["manual"].escaped = "none"
          /\ coordinator'.data = coordinator.data
          /\ coordinator'.update_interval = entry.retry_interval
          /\ ~coordinator'.last_update_success]_vars

C8_Witness ==
    /\ task["manual"].pc = "idle"
    /\ task["manual"].result \in Exceptions
    /\ last_refresh = "failed"
    /\ entry.scan_interval # entry.retry_interval
    /\ coordinator.update_interval = entry.retry_interval
    /\ coordinator.data # 0

\* C9: after every completed refresh the update interval is the retry
\* interval if it failed and the scan interval if it succeeded.
C9_IntervalFollowsOutcome ==
    /\ last_refresh = "failed" => coordinator.update_interval = entry.retry_interval
    /\ last_refresh = "ok" => coordinator.update_interval = entry.scan_interval

\* A refresh succeeded after another one had failed.
C9_Witness ==
    /\ last_refresh = "ok"
    /\ task["manual"].pc = "idle"
    /\ task["manual"].result \in Exceptions
    /\ entry.scan_interval # entry.retry_interval
    /\ coordinator.update_interval = entry.scan_interval

\* C10: a request that runs into its timeout surfaces as the connect error
\* (ConnectionError; cannot_connect in the config flow).
C10_TimeoutIsConnectError ==
    \A t \in HostTasks :
        (task[t].pc = "idle" /\ task[t].timed_out) =>
            /\ task[t].result \in ConnectionErrors
            /\ t = "user" => flow.errors = "cannot_connect"

\* C11: a get_sim_cards() whose first dashboard response passed the check has
\* sent that one request only, has not called login() and has returned the
\* snapshot parsed from that response.
C11_FirstPassNoLogin ==
    \A t \in Tasks :
        ( /\ task[t].pc = "idle"
          /\ task[t].in_fetch
          /\ Len(task[t].verdicts) >= 1
          /\ task[t].verdicts[1] )
        => /\ task[t].log = <<"GET dashboard">>
           /\ task[t].logins = 0
           /\ Len(task[t].verdicts) = 1
           /\ task[t].result = "ok"
           /\ task[t].returned = task[t].contents[1]
           /\ task[t].returned \in Snapshots

C11_Witness ==
    /\ task["caller"].pc = "idle"
    /\ task["caller"].op = "fetch"
    /\ task["caller"].verdicts = <<TRUE>>
    /\ task["caller"].returned = MaxSnap
    /\ api["cli"].logged_in = FALSE

-----------------------------------------------------------------------------
(* Text.  A string is the sequence of its characters.                      *)

\* Longest text of a credit element.
MaxLen == 6

\* The currency symbol, the character U+20AC.
Euro == "euro"

Chars == {Euro, "E", "U", "R", ",", "1", " "}
Whitespace == {" "}

\* str.startswith
startswith(s, prefix) ==
    /\ Len(s) >= Len(prefix)
    /\ SubSeq(s, 1, Len(prefix)) = prefix

\* str.replace: the occurrences of old, found left to right without overlap,
\* become new; the result is not searched again.
RECURSIVE replace(_, _, _)
replace(s, old, new) ==
    IF Len(s) < Len(old) THEN s
    ELSE IF startswith(s, old)
         THEN new \o replace(SubSeq(s, Len(old) + 1, Len(s)), old, new)
         ELSE <<s[1]>> \o replace(Tail(s), old, new)

RECURSIVE lstrip(_)
lstrip(s) == IF s # << >> /\ s[1] \in Whitespace THEN lstrip(Tail(s)) ELSE s

RECURSIVE rstrip(_)
rstrip(s) ==
    IF s # << >> /\ s[Len(s)] \in Whitespace THEN rstrip(SubSeq(s, 1, Len(s) - 1)) ELSE s

\* str.strip
strip(s) == rstrip(lstrip(s))

\* get_sim_cards, the text of the account's credit element:
\* text.replace(Euro, "").replace("EUR", "").strip().replace(",", ".")
account_credit_val(text) ==
    replace(strip(replace(replace(text, <<Euro>>, << >>), <<"E", "U", "R">>, << >>)),
            <<",">>, <<".">>)

\* get_sim_cards, the text of a SIM row's credit cell:
\* text.replace(Euro, "").replace(",", ".").strip()
sim_credit_val(text) ==
    strip(replace(replace(text, <<Euro>>, << >>), <<",">>, <<".">>))

\* get_text(strip=True) returns a text without whitespace at its ends.
Texts ==
    { s \in UNION { [1 .. n -> Chars] : n \in 0 .. MaxLen } : strip(s) = s }

\* The texts of credit elements, normalized the way of the account credit
\* and, for those a SIM row takes as its credit cell, the way of a SIM credit.
normalize_account ==
    /\ output = << >>
    /\ output' = <<"account", account_credit_val(input)>>
    /\ UNCHANGED <<api, closed, expired, task, entry, coordinator, last_refresh, flow,
                   page, verdict, input, entity_registry, migrations,
                   device_registry, entity_entries>>

normalize_sim ==
    /\ output = << >>
    /\ startswith(input, <<Euro>>)
    /\ output' = <<"sim", sim_credit_val(input)>>
    /\ UNCHANGED <<api, closed, expired, task, entry, coordinator, last_refresh, flow,
                   page, verdict, input, entity_registry, migrations,
                   device_registry, entity_entries>>

InitText ==
    /\ InitCommon
    /\ entry.scan_interval = DEFAULT_SCAN_INTERVAL
    /\ entry.retry_interval = DEFAULT_RETRY_INTERVAL
    /\ api = [c \in Clients |-> NewAPI("none")]
    /\ page = NoPage
    /\ verdict = "none"
    /\ input \in Texts
    /\ output = << >>
    /\ entity_registry = << >>
    /\ migrations = 0
    /\ device_registry = << >>
    /\ entity_entries = << >>

NextText == normalize_account \/ normalize_sim

SpecText == InitText /\ [][NextText]_vars

\* C12 as stated: normalizing a normalized credit again leaves it as it is,
\* for the account credit and for the SIM credit.
C12_NormalizeIdempotent ==
    /\ (output # << >> /\ output[1] = "account")
         => account_credit_val(output[2]) = output[2]
    /\ (output # << >> /\ output[1] = "sim")
         => sim_credit_val(output[2]) = output[2]

\* C13 as stated: the credit of a SIM row is the string the account-credit
\* normalization gives for the same cell text.
C13_SimCreditAsAccountCredit ==
    (output # << >> /\ output[1] = "sim") => output[2] = account_credit_val(input)

-----------------------------------------------------------------------------
(* The dashboard page as get_sim_cards reads it.                           *)

\* Most <tr> elements of a page.
MaxRows == 2

\* An element or attribute get_sim_cards looks up: whether the page has it,
\* and its text or value.
Absent == [present |-> FALSE, text |-> << >>]
Present(text) == [present |-> TRUE, text |-> text]

\* The first div of class sideTable_side: its sideTable_title (whether its
\* text contains "available credit for account") and its sideTable_text.
AccountBlocks ==
    { [present |-> FALSE, title |-> "absent", credit_el |-> Absent],
      [present |-> TRUE,  title |-> "absent", credit_el |-> Present(<<"1">>)],
      [present |-> TRUE,  title |-> "other",  credit_el |-> Present(<<"1">>)],
      [present |-> TRUE,  title |-> "credit", credit_el |-> Absent],
      [present |-> TRUE,  title |-> "credit", credit_el |-> Present(<<Euro, "1", ",", "1">>)] }

\* The texts of the <td> cells of a row, as get_text(strip=True) gives them.
CellTexts == { << >>,
               <<<<"1">>>>,
               <<<<Euro, "1", ",", "1">>>>,
               <<<<"1">>, <<Euro, " ", "1">>>>,
               <<<<Euro, "1">>, <<Euro, "1", ",", "1">>>>,
               <<<<Euro>>>> }

\* The data-number attribute of the container, the js-sim-label-value span.
DataNumbers == {Absent, Present(<<" ", "1">>), Present(<<"1", "1">>)}
Labels == {Absent, Present(<<"E">>)}

\* A <tr>: whether it holds a div of class js-label-container, and what that
\* container and the cells of the row hold.
Rows ==
    [container : {TRUE}, number : DataNumbers, label : Labels, cells : CellTexts]
    \cup [container : {FALSE}, number : {Absent}, label : {Absent}, cells : CellTexts]

Doms ==
    [account : AccountBlocks,
     rows : UNION { [1 .. n -> Rows] : n \in 0 .. MaxRows }]

\* Python's None, and the two default strings.
None == <<"None">>
Unnamed == <<"U", "n", "n", "a", "m", "e", "d">>
ZeroCredit == <<"0", ".", "0", "0">>

\* get_sim_cards: result["account_credit"].
mut_account_credit(block) ==
    IF block.credit_el.present THEN account_credit_val(block.credit_el.text) ELSE None

account_credit(block) ==
    IF ~block.present THEN None
    ELSE IF block.title # "credit" THEN None
    ELSE IF ~block.credit_el.present THEN None
    ELSE account_credit_val(block.credit_el.text)

\* get_sim_cards: the credit of a row, from the first cell that starts with
\* the currency symbol; None if there is none.
RECURSIVE sim_credit(_)
sim_credit(cells) ==
    IF cells = << >> THEN None
    ELSE IF startswith(cells[1], <<Euro>>) THEN sim_credit_val(cells[1])
    ELSE sim_credit(Tail(cells))

\* sim_credit or "0.00"
mut_credit_or_default(credit) == IF credit = None THEN None ELSE credit

credit_or_default(credit) ==
    IF credit = None \/ credit = << >> THEN ZeroCredit ELSE credit

\* get_sim_cards: the entry appended for a row with a container.
sim_entry(row) ==
    [number |-> strip(IF row.number.present THEN row.number.text ELSE << >>),
     name   |-> IF row.label.present THEN row.label.text ELSE Unnamed,
     credit |-> credit_or_default(sim_credit(row.cells))]

\* get_sim_cards: the loop over the rows.
RECURSIVE mut_sims(_)
mut_sims(rows) ==
    IF rows = << >> THEN << >>
    ELSE IF ~rows[1].container THEN mut_sims(Tail(rows))
    ELSE mut_sims(Tail(rows)) \o <<sim_entry(rows[1])>>

RECURSIVE sims(_)
sims(rows) ==
    IF rows = << >> THEN << >>
    ELSE IF ~rows[1].container THEN sims(Tail(rows))
    ELSE <<sim_entry(rows[1])>> \o sims(Tail(rows))

\* get_sim_cards on the parsed page.
get_sim_cards(dom) ==
    [account_credit |-> account_credit(dom.account), sims |-> sims(dom.rows)]

\* A page is parsed.
parse ==
    /\ output = << >>
    /\ output' = <<get_sim_cards(input)>>
    /\ UNCHANGED <<api, closed, expired, task, entry, coordinator, last_refresh, flow,
                   page, verdict, input, entity_registry, migrations,
                   device_registry, entity_entries>>

\* sensor.py, async_setup_entry: the sensors of the SIM entries, a balance and
\* a description sensor for each entry with a number.
RECURSIVE mut_sim_sensors(_)
mut_sim_sensors(sim_list) ==
    IF sim_list = << >> THEN << >>
    ELSE <<[kind |-> "sim_balance", sim_number |-> sim_list[1].number],
           [kind |-> "sim_description", sim_number |-> sim_list[1].number]>>
         \o mut_sim_sensors(Tail(sim_list))

RECURSIVE sim_sensors(_)
sim_sensors(sim_list) ==
    IF sim_list = << >> THEN << >>
    ELSE IF sim_list[1].number = << >> THEN sim_sensors(Tail(sim_list))
    ELSE <<[kind |-> "sim_balance", sim_number |-> sim_list[1].number],
           [kind |-> "sim_description", sim_number |-> sim_list[1].number]>>
         \o sim_sensors(Tail(sim_list))

\* sensor.py, async_setup_entry: the list handed to async_add_entities.
sensors(data) ==
    (IF data.account_credit # None
     THEN <<[kind |-> "account_credit", sim_number |-> << >>]>> ELSE << >>)
    \o (IF data.sims # << >>
        THEN <<[kind |-> "total_sim_credit", sim_number |-> << >>]>> ELSE << >>)
    \o sim_sensors(data.sims)

\* The sensor platform is set up on the snapshot of the page.
sensor_async_setup_entry ==
    /\ Len(output) = 1
    /\ output' = Append(output, sensors(output[1]))
    /\ UNCHANGED <<api, closed, expired, task, entry, coordinator, last_refresh, flow,
                   page, verdict, input, entity_registry, migrations,
                   device_registry, entity_entries>>

InitParse ==
    /\ InitCommon
    /\ entry.scan_interval = DEFAULT_SCAN_INTERVAL
    /\ entry.retry_interval = DEFAULT_RETRY_INTERVAL
    /\ api = [c \in Clients |-> NewAPI("none")]
    /\ page = NoPage
    /\ verdict = "none"
    /\ input \in Doms
    /\ output = << >>
    /\ entity_registry = << >>
    /\ migrations = 0
    /\ device_registry = << >>
    /\ entity_entries = << >>

NextParse == parse \/ sensor_async_setup_entry

SpecParse == InitParse /\ [][NextParse]_vars

\* Row i of the page has no cell whose text starts with the currency symbol.
NoCreditCell(row) ==
    \A j \in 1 .. Len(row.cells) : row.cells[j] = << >> \/ row.cells[j][1] # Euro

\* The positions of the rows of a page that hold a container, in page order.
RECURSIVE SimRowsFrom(_, _)
SimRowsFrom(rows, i) ==
    IF i > Len(rows) THEN << >>
    ELSE (IF rows[i].container THEN <<i>> ELSE << >>) \o SimRowsFrom(rows, i + 1)

\* C14: every page is parsed to a snapshot, with the defaults: no account
\* credit without a block, a matching title and a value element; credit
\* "0.00" for a row without a credit cell, number "" without the data-number
\* attribute, name "Unnamed" without the label span.
C14_ParseDefaults ==
    output # << >> =>
        LET snapshot == output[1]
            a == input.account
            at == SimRowsFrom(input.rows, 1)
        IN  /\ (~a.present \/ a.title # "credit" \/ ~a.credit_el.present)
                  => snapshot.account_credit = None
            /\ Len(snapshot.sims) = Len(at)
            /\ \A k \in 1 .. Len(at) :
                 LET row == input.rows[at[k]]
                     sim == snapshot.sims[k]
                 IN  /\ NoCreditCell(row) => sim.credit = ZeroCredit
                     /\ ~row.number.present => sim.number = << >>
                     /\ ~row.label.present => sim.name = Unnamed
                     /\ sim.credit # None

C14_Witness ==
    /\ output # << >>
    /\ input.account.present /\ input.account.title = "other"
    /\ Len(input.rows) = MaxRows
    /\ input.rows[1].container /\ ~input.rows[1].number.present
    /\ ~input.rows[1].label.present /\ input.rows[1].cells = <<<<"1">>>>
    /\ output[1].sims[1] = [number |-> << >>, name |-> Unnamed, credit |-> ZeroCredit]

\* C15: the sims of a snapshot are the rows that hold a container, one entry
\* each, in the order of the page.
C15_OneEntryPerSimRow ==
    output # << >> =>
        LET at == SimRowsFrom(input.rows, 1)
        IN  /\ Len(output[1].sims) = Len(at)
            /\ \A k \in 1 .. Len(at) : output[1].sims[k] = sim_entry(input.rows[at[k]])

C15_Witness ==
    /\ output # << >>
    /\ Len(input.rows) >= 2
    /\ input.rows[1].container /\ input.rows[1].number = Present(<<"1", "1">>)
    /\ input.rows[2].container /\ input.rows[2].number = Present(<<" ", "1">>)
    /\ Len(output[1].sims) >= 2
    /\ output[1].sims[1].number = <<"1", "1">>
    /\ output[1].sims[2].number = <<"1">>

-----------------------------------------------------------------------------
(* Unique IDs.  A unique ID is the sequence of the pieces that its "_"     *)
(* characters separate: "airbalticcard_371_balance" is                     *)
(* <<"airbalticcard", "371", "balance">>, and "" is <<"">>.                *)

\* Most pieces of a unique ID.
MaxTokens == 4

\* const.py: DOMAIN
Domain == "airbalticcard"

\* Config entry ids; they hold no "_".
Scopes == {"E1", "E2"}

Tokens == {Domain, "account", "credit", "total", "sim", "refresh", "balance",
           "description", "", "371"} \cup Scopes

Keys == UNION { [1 .. n -> Tokens] : n \in 1 .. MaxTokens }

\* unique_id.startswith(p + "_"), p given by its pieces.
has_prefix(unique_id, p) ==
    /\ Len(unique_id) > Len(p)
    /\ SubSeq(unique_id, 1, Len(p)) = p

\* suffix.endswith("_" + last)
has_last(suffix, last) ==
    /\ Len(suffix) >= 2
    /\ suffix[Len(suffix)] = last

mut_map_legacy_unique_id(unique_id, account_id) ==
    IF ~has_prefix(unique_id, <<Domain>>) THEN None
    ELSE <<Domain, account_id>> \o Tail(unique_id)

mut_map_without_scope_check(unique_id, account_id) ==
    LET suffix == Tail(unique_id)
    IN  IF ~has_prefix(unique_id, <<Domain>>) THEN None
        ELSE IF suffix \in { <<"account", "credit">>, <<"total", "sim", "credit">>,
                             <<"refresh">> }
                \/ ((has_last(suffix, "balance") \/ has_last(suffix, "description"))
                    /\ SubSeq(suffix, 1, Len(suffix) - 1) # <<"">>)
             THEN <<Domain, account_id>> \o suffix
        ELSE None

map_legacy_unique_id(unique_id, account_id) ==
    LET prefix == <<Domain>>
        scoped_prefix == <<Domain, account_id>>
        suffix == Tail(unique_id)
        sim_part == SubSeq(suffix, 1, Len(suffix) - 1)
        sensor_suffix == suffix[Len(suffix)]
    IN  IF has_prefix(unique_id, scoped_prefix) THEN None
        ELSE IF ~has_prefix(unique_id, prefix) THEN None
        ELSE IF suffix \in { <<"account", "credit">>, <<"total", "sim", "credit">>,
                             <<"refresh">> }
             THEN scoped_prefix \o suffix
        ELSE IF (has_last(suffix, "balance") \/ has_last(suffix, "description"))
                /\ sim_part # <<"">>
             THEN scoped_prefix \o sim_part \o <<sensor_suffix>>
        ELSE None

\* A unique ID is mapped.
map_unique_id ==
    /\ output = << >>
    /\ output' = <<map_legacy_unique_id(input.unique_id, input.account_id)>>
    /\ UNCHANGED <<api, closed, expired, task, entry, coordinator, last_refresh, flow,
                   page, verdict, input, entity_registry, migrations,
                   device_registry, entity_entries>>

InitUniqueId ==
    /\ InitCommon
    /\ entry.scan_interval = DEFAULT_SCAN_INTERVAL
    /\ entry.retry_interval = DEFAULT_RETRY_INTERVAL
    /\ api = [c \in Clients |-> NewAPI("none")]
    /\ page = NoPage
    /\ verdict = "none"
    /\ input \in [unique_id : Keys, account_id : Scopes]
    /\ output = << >>
    /\ entity_registry = << >>
    /\ migrations = 0
    /\ device_registry = << >>
    /\ entity_entries = << >>

NextUniqueId == map_unique_id

SpecUniqueId == InitUniqueId /\ [][NextUniqueId]_vars

\* The suffixes of the legacy keys: account_credit, total_sim_credit, refresh,
\* <sim>_balance and <sim>_description for a non-empty <sim>.
LegacySuffix(suffix) ==
    \/ suffix \in { <<"account", "credit">>, <<"total", "sim", "credit">>, <<"refresh">> }
    \/ \E kind \in {"balance", "description"} :
         /\ Len(suffix) >= 2
         /\ suffix[Len(suffix)] = kind
         /\ SubSeq(suffix, 1, Len(suffix) - 1) # <<"">>

\* The key starts with "airbalticcard_<scope>_".
AlreadyScoped(key, scope) ==
    Len(key) >= 3 /\ key[1] = Domain /\ key[2] = scope

\* C16: a legacy key airbalticcard_<suffix> is mapped to
\* airbalticcard_<scope>_<suffix>; a key that is already scoped with the scope,
\* and a key of no legacy pattern, is mapped to None.
C16_MapLegacyUniqueId ==
    output # << >> =>
        LET key == input.unique_id
            scope == input.account_id
            legacy == Len(key) >= 2 /\ key[1] = Domain /\ LegacySuffix(Tail(key))
        IN  /\ (legacy /\ ~AlreadyScoped(key, scope))
                 => output[1] = <<Domain, scope>> \o Tail(key)
            /\ (AlreadyScoped(key, scope) \/ ~legacy) => output[1] = None

C16_Witness ==
    /\ input = [unique_id |-> <<Domain, "371", "balance">>, account_id |-> "E1"]
    /\ output = <<<<Domain, "E1", "371", "balance">>>>

C16_WitnessNone ==
    /\ input = [unique_id |-> <<Domain, "E1", "refresh">>, account_id |-> "E1"]
    /\ output = <<None>>

-----------------------------------------------------------------------------
(* The entity registry and the migration of its unique IDs.                *)

\* Most entities in the registry, and most setups of the entry.
MaxEntities == 3
MaxMigrations == 2

\* The config entry that is set up; its entry_id is the account_id.
ENTRY_ID == "E1"

\* Unique IDs found in a registry: the legacy ones, scoped ones, a foreign one.
RegistryKeys ==
    { <<Domain, "account", "credit">>, <<Domain, "total", "sim", "credit">>,
      <<Domain, "refresh">>, <<Domain, "371", "balance">>,
      <<Domain, "371", "description">>,
      <<Domain, ENTRY_ID, "account", "credit">>, <<Domain, ENTRY_ID, "371", "balance">>,
      <<"other", "371">> }

\* The registry keeps the unique IDs of a platform distinct.
Registries ==
    { reg \in UNION { [1 .. n -> [config_entry_id : Scopes, unique_id : RegistryKeys]] :
                        n \in 0 .. MaxEntities } :
        \A i, j \in 1 .. Len(reg) : reg[i].unique_id = reg[j].unique_id => i = j }

\* registry.async_update_entity(entity_id, new_unique_id=...) raises ValueError
\* when another entity holds the unique ID.
in_use(reg, i, new_unique_id) ==
    \E j \in 1 .. Len(reg) : j # i /\ reg[j].unique_id = new_unique_id

\* _async_migrate_entity_unique_ids: the loop, from entity i on.
RECURSIVE mut_migrate_from(_, _, _)
mut_migrate_from(reg, account_id, i) ==
    IF i > Len(reg) THEN reg
    ELSE LET entity_entry == reg[i]
             new_unique_id == map_legacy_unique_id(entity_entry.unique_id, account_id)
         IN  IF entity_entry.config_entry_id # ENTRY_ID
                \/ new_unique_id = None
                \/ new_unique_id = entity_entry.unique_id
             THEN mut_migrate_from(reg, account_id, i + 1)
             ELSE IF in_use(reg, i, new_unique_id) THEN reg
             ELSE mut_migrate_from([reg EXCEPT ![i].unique_id = new_unique_id],
                                   account_id, i + 1)

RECURSIVE migrate_from(_, _, _)
migrate_from(reg, account_id, i) ==
    IF i > Len(reg) THEN reg
    ELSE LET entity_entry == reg[i]
             new_unique_id == map_legacy_unique_id(entity_entry.unique_id, account_id)
         IN  IF entity_entry.config_entry_id # ENTRY_ID
                \/ new_unique_id = None
                \/ new_unique_id = entity_entry.unique_id
                \/ in_use(reg, i, new_unique_id)
             THEN migrate_from(reg, account_id, i + 1)
             ELSE migrate_from([reg EXCEPT ![i].unique_id = new_unique_id],
                               account_id, i + 1)

\* A setup of the entry runs _async_migrate_entity_unique_ids.
async_migrate_entity_unique_ids ==
    /\ migrations < MaxMigrations
    /\ migrations' = migrations + 1
    /\ entity_registry' = migrate_from(entity_registry, ENTRY_ID, 1)
    /\ UNCHANGED <<api, closed, expired, task, entry, coordinator, last_refresh, flow,
                   page, verdict, input, output, device_registry, entity_entries>>

InitMigrate ==
    /\ InitCommon
    /\ entry.scan_interval = DEFAULT_SCAN_INTERVAL
    /\ entry.retry_interval = DEFAULT_RETRY_INTERVAL
    /\ api = [c \in Clients |-> NewAPI("none")]
    /\ page = NoPage
    /\ verdict = "none"
    /\ input = << >>
    /\ output = << >>
    /\ entity_registry \in Registries
    /\ migrations = 0
    /\ device_registry = << >>
    /\ entity_entries = << >>

NextMigrate == async_migrate_entity_unique_ids

SpecMigrate == InitMigrate /\ [][NextMigrate]_vars

\* C17: a key the mapping produced is mapped to None with the same scope, and
\* a run of the migration on a registry that has been migrated changes no
\* unique ID.
C17_MigrationOneShot ==
    /\ [](\A i \in 1 .. Len(entity_registry), s \in Scopes :
            LET k == map_legacy_unique_id(entity_registry[i].unique_id, s)
            IN  k # None => map_legacy_unique_id(k, s) = None)
    /\ [][migrations >= 1 => entity_registry' = entity_registry]_vars

C17_Witness ==
    /\ migrations = MaxMigrations
    /\ Len(entity_registry) = 2
    /\ entity_registry[1] = [config_entry_id |-> ENTRY_ID,
                             unique_id |-> <<Domain, ENTRY_ID, "total", "sim", "credit">>]
    /\ entity_registry[2] = [config_entry_id |-> ENTRY_ID,
                             unique_id |-> <<Domain, ENTRY_ID, "371", "description">>]

\* C18: a poll in which login() or the fetch raised ends with UpdateFailed,
\* and every entity of the loaded entry is available exactly when the refresh
\* that completed last succeeded.
C18_FailureIsUnavailability ==
    /\ last_refresh = "failed" => coordinator.last_exception = "UpdateFailed"
    /\ last_refresh = "ok" => coordinator.last_exception = "none"
    /\ \A t \in {"poll", "manual"} :
         (task[t].pc = "idle" /\ task[t].op = "update")
           => task[t].escaped \in {"none", "ConfigEntryNotReady"}
    /\ (entry.state = "loaded" /\ last_refresh # "none")
         => \A kind \in EntityKinds : available(kind) <=> last_refresh = "ok"

C18_Witness ==
    /\ entry.state = "loaded"
    /\ task["poll"].pc = "idle"
    /\ task["poll"].result = "TimeoutError"
    /\ task["manual"].result = "ok"
    /\ last_refresh = "failed"
    /\ coordinator.data # 0
    /\ \A kind \in EntityKinds : ~available(kind)

\* Task t's latest login() has sent its POST.
Posted(t) == task[t].posted # NoPayload

\* C19: login() sends its POST only after the GET of the login page came back
\* with status 200 and a non-empty nonce, and the POST carries that nonce with
\* the client's username and password; a GET with another status ends login()
\* with the connect error, without a POST and with the authenticated flag as
\* it was.
C19_PostAfterNonce ==
    /\ [](\A t \in Tasks :
            /\ task[t].pc = "post" => Posted(t)
            /\ Posted(t) =>
                 /\ task[t].nonce \in NonceValues
                 /\ task[t].posted = [username |-> api[client_of(t)].username,
                                      password |-> api[client_of(t)].password,
                                      nonce |-> task[t].nonce,
                                      login |-> "Log in"]
            /\ \A i \in 1 .. Len(task[t].log) :
                 task[t].log[i] = "POST login" => (i > 1 /\ task[t].log[i - 1] = "GET login")
            /\ task[t].login_result = "ConnectionError:status" =>
                 /\ ~Posted(t)
                 /\ task[t].nonce = "none"
                 /\ task[t].log[Len(task[t].log)] = "GET login"
                 /\ task[t].result \in ConnectionErrors)
    /\ [][\A t \in Tasks :
            (task'[t].login_result = "ConnectionError:status"
               /\ task[t].login_result # "ConnectionError:status")
            => api'[client_of(t)].logged_in = api[client_of(t)].logged_in]_vars

C19_Witness ==
    /\ task["caller"].pc = "idle"
    /\ task["caller"].op = "login"
    /\ task["caller"].login_result = "ok"
    /\ task["caller"].posted.nonce = "n2"
    /\ task["caller"].log = <<"GET login", "POST login">>

C19_WitnessStatus ==
    /\ task["caller"].pc = "idle"
    /\ task["caller"].login_result = "ConnectionError:status"
    /\ api["cli"].logged_in
    /\ task["caller"].log = <<"GET dashboard", "GET login">>

\* C20 as stated: a page with a log-out anchor and no element of class
\* woocommerce-error is judged authenticated, whatever its text.
C20_OnlyErrorRegionFiresRuleOne ==
    ( /\ verdict # "none"
      /\ page.a_text \/ page.a_href
      /\ page.err = "none" )
    => verdict = "authenticated"

\* C21: a get_sim_cards() whose re-authentication login() failed with the
\* connect error or the auth error has ended with that error, after one
\* dashboard GET, and has returned no snapshot.
C21_LoginFailureEndsFetch ==
    \A t \in Tasks :
        ( /\ task[t].pc = "idle"
          /\ task[t].in_fetch
          /\ task[t].logins >= 1
          /\ task[t].login_result \in ConnectionErrors \cup ValueErrors )
        => /\ task[t].result = task[t].login_result
           /\ task[t].logins = 1
           /\ DashboardGets(task[t].log) = 1
           /\ task[t].verdicts = <<FALSE>>
           /\ task[t].contents = <<0>>
           /\ task[t].returned = 0

C21_Witness ==
    /\ task["caller"].pc = "idle"
    /\ task["caller"].op = "fetch"
    /\ task["caller"].login_result = "ValueError:invalid"
    /\ task["caller"].result = "ValueError:invalid"
    /\ task["caller"].log = <<"GET dashboard", "GET login", "POST login">>

C21_WitnessConnect ==
    /\ task["caller"].pc = "idle"
    /\ task["caller"].op = "fetch"
    /\ task["caller"].result = "ConnectionError:empty_nonce"
    /\ task["caller"].log = <<"GET dashboard", "GET login">>

\* C22 as stated: a refresh of the coordinator sends the GET of the login
\* page before it has requested the dashboard only when the client has never
\* logged in or a dashboard response has been judged not authenticated since
\* its last login.
C22_LoginOnlyIfNeeded ==
    \A t \in EntryTasks :
        ( /\ task[t].op = "update"
          /\ task[t].pc = "nonce"
          /\ ~task[t].in_fetch )
        => (~api["entry"].logged_in \/ expired["entry"])

\* The user step has run its validation to the end.
Validated == task["user"].pc = "idle" /\ task["user"].op = "validate"

\* C23: the user step creates an entry only after login() succeeded with the
\* credentials entered; after ValueError it shows the form with invalid_auth,
\* after ConnectionError with cannot_connect, after any other exception with
\* unknown, and a step whose login() failed creates no entry.
C23_FlowErrorMapping ==
    /\ [](Validated =>
            LET res == task["user"].result
            IN  /\ flow.result \in {"create_entry", "form"}
                /\ flow.result = "create_entry" =>
                     /\ res = "ok"
                     /\ task["user"].login_result = "ok"
                     /\ task["user"].posted.username = flow.user_input.username
                     /\ task["user"].posted.password = flow.user_input.password
                     /\ flow.user_input.username \in flow.configured
                /\ res \in ValueErrors =>
                     flow.result = "form" /\ flow.errors = "invalid_auth"
                /\ res \in ConnectionErrors =>
                     flow.result = "form" /\ flow.errors = "cannot_connect"
                /\ res \notin ValueErrors \cup ConnectionErrors \cup {"ok"} =>
                     flow.result = "form" /\ flow.errors = "unknown")
    /\ [][(task'["user"].pc = "idle" /\ task'["user"].result # "ok")
            => flow'.configured = flow.configured]_vars

C23_Witness ==
    /\ Validated
    /\ task["user"].result = "ValueError:invalid"
    /\ flow.errors = "invalid_auth"
    /\ flow.user_input = [username |-> "other", password |-> "wrong"]
    /\ flow.configured = {"user"}

C23_WitnessCreated ==
    /\ Validated
    /\ flow.result = "create_entry"
    /\ flow.configured = {"user", "other"}

\* C24 as stated: when the validation of the user step has returned, the
\* session its client created for itself has been closed.
C24_ValidationClosesOwnSession ==
    (Validated /\ api["flow"].own_session) => api["flow"].session \in closed

\* C27: in a run of the unique-ID migration an entity of the entry whose
\* target unique ID another entity holds keeps its unique ID, the run goes on
\* to its end, and every other entity of the entry with a legacy unique ID
\* gets its target unique ID.
C27_CollisionIsSkipped ==
    [][migrations' = migrations + 1 =>
         /\ Len(entity_registry') = Len(entity_registry)
         /\ \A i \in 1 .. Len(entity_registry) :
              LET entity_entry == entity_registry[i]
                  target == map_legacy_unique_id(entity_entry.unique_id, ENTRY_ID)
                  held == \E j \in 1 .. Len(entity_registry) :
                             j # i /\ entity_registry[j].unique_id = target
              IN  /\ entity_registry'[i].config_entry_id = entity_entry.config_entry_id
                  /\ entity_registry'[i].unique_id =
                       IF entity_entry.config_entry_id = ENTRY_ID /\ target # None /\ ~held
                       THEN target
                       ELSE entity_entry.unique_id]_vars

C27_Witness ==
    /\ migrations = 1
    /\ Len(entity_registry) = 3
    /\ entity_registry[1] = [config_entry_id |-> ENTRY_ID,
                             unique_id |-> <<Domain, "371", "balance">>]
    /\ entity_registry[2] = [config_entry_id |-> ENTRY_ID,
                             unique_id |-> <<Domain, ENTRY_ID, "371", "balance">>]
    /\ entity_registry[3] = [config_entry_id |-> ENTRY_ID,
                             unique_id |-> <<Domain, ENTRY_ID, "refresh">>]

\* The number of sensors of a kind for a SIM number in a list of sensors, and
\* the number of entries with a SIM number in a list of SIM entries.
SensorCount(list, kind, number) ==
    Cardinality({i \in 1 .. Len(list) :
                   list[i].kind = kind /\ list[i].sim_number = number})

EntryCount(sim_list, number) ==
    Cardinality({i \in 1 .. Len(sim_list) : sim_list[i].number = number})

\* C28: the sensors set up for a snapshot hold one balance and one
\* description sensor for each SIM entry with a non-empty number, and no
\* sensor of a SIM for an entry with the empty number.
C28_NoSensorForEmptyNumber ==
    Len(output) = 2 =>
        LET sim_list == output[1].sims
            created == output[2]
            PerSim == {"sim_balance", "sim_description"}
        IN  /\ \A kind \in PerSim :
                 /\ SensorCount(created, kind, << >>) = 0
                 /\ \A k \in 1 .. Len(sim_list) :
                      sim_list[k].number # << >> =>
                        SensorCount(created, kind, sim_list[k].number)
                          = EntryCount(sim_list, sim_list[k].number)
            /\ \A i \in 1 .. Len(created) :
                 created[i].kind \in PerSim =>
                   EntryCount(sim_list, created[i].sim_number) >= 1

C28_Witness ==
    /\ Len(output) = 2
    /\ Len(output[1].sims) = 2
    /\ output[1].sims[1].number = << >>
    /\ output[1].sims[2].number = <<"1">>
    /\ output[1].account_credit = None
    /\ output[2] = <<[kind |-> "total_sim_credit", sim_number |-> << >>],
                    [kind |-> "sim_balance", sim_number |-> <<"1">>],
                    [kind |-> "sim_description", sim_number |-> <<"1">>]>>

-----------------------------------------------------------------------------
(* The device registry and _async_migrate_device_entries.  The value of a  *)
(* device's identifier of the domain is given by its pieces, like a unique *)
(* ID; << >> stands for a device without an identifier of the domain.      *)

\* The ids of the devices, in the order the registry lists them, and the ids
\* of the entities.
DeviceOrder == <<"d1", "d2", "d3">>
DeviceIds == {"d1", "d2", "d3"}
EntityIds == {"e1", "e2"}

\* account_identifier_old, account_identifier_new
OldAccount == <<"airbalticcard", "account">>
NewAccount == <<ENTRY_ID, "account">>

\* No identifier, the account device old and new, the device of a SIM old
\* and new.
IdentifierValues == { << >>, OldAccount, NewAccount, <<"371">>, <<ENTRY_ID, "371">> }

NoDevice == [exists |-> FALSE, identifier |-> << >>, config_entries |-> {},
             via_device_id |-> "none"]
NoEntity == [exists |-> FALSE, config_entry_id |-> "none", device_id |-> "none"]

\* The registry keeps the identifiers of its devices distinct.
DeviceRegistries ==
    { dev \in [DeviceIds ->
                 {NoDevice} \cup [exists : {TRUE}, identifier : IdentifierValues,
                                  config_entries : (SUBSET Scopes) \ {{}},
                                  via_device_id : {"none"}]] :
        \A d1, d2 \in DeviceIds :
            (dev[d1].exists /\ dev[d2].exists /\ dev[d1].identifier # << >>
               /\ dev[d1].identifier = dev[d2].identifier) => d1 = d2 }

\* An entity is attached to a device that exists and that its config entry
\* is linked to.
EntityEntries(dev) ==
    { ent \in [EntityIds ->
                 {NoEntity} \cup [exists : {TRUE}, config_entry_id : Scopes,
                                  device_id : DeviceIds \cup {"none"}]] :
        \A e \in EntityIds :
            (ent[e].exists /\ ent[e].device_id # "none") =>
                /\ dev[ent[e].device_id].exists
                /\ ent[e].config_entry_id \in dev[ent[e].device_id].config_entries }

\* device_registry.async_get_device({identifier})
async_get_device(dev, identifier) ==
    IF \E d \in DeviceIds : dev[d].exists /\ dev[d].identifier = identifier
    THEN CHOOSE d \in DeviceIds : dev[d].exists /\ dev[d].identifier = identifier
    ELSE "none"

\* device_registry.async_remove_device(d): the registry keeps the identifier
\* of d among its deleted devices, and it clears the via_device_id of the
\* devices that pointed at d.
async_remove_device(dev, d) ==
    [x \in DeviceIds |->
        IF x = d THEN [dev[d] EXCEPT !.exists = FALSE, !.via_device_id = "none"]
        ELSE IF dev[x].via_device_id = d THEN [dev[x] EXCEPT !.via_device_id = "none"]
        ELSE dev[x]]

\* An entity of the entry is attached to device d.
legacy_entities_present(ent, d) ==
    \E e \in EntityIds :
        ent[e].exists /\ ent[e].config_entry_id = ENTRY_ID /\ ent[e].device_id = d

\* The legacy account device d may be removed.
mut_may_remove(ent, d) == TRUE

may_remove(ent, d) == ~legacy_entities_present(ent, d)

\* The entities of the entry on the legacy SIM device d are moved to the
\* device that has the scoped identifier already.
reassign(ent, d, existing_device) ==
    [e \in EntityIds |->
        IF ent[e].exists /\ ent[e].config_entry_id = ENTRY_ID /\ ent[e].device_id = d
        THEN [ent[e] EXCEPT !.device_id = existing_device]
        ELSE ent[e]]

\* value.startswith(f"{account_id}_"): the device has a scoped identifier.
mut_already_migrated(value, account_id) == FALSE

already_migrated(value, account_id) == has_prefix(value, <<account_id>>)

\* _async_migrate_device_entries, the account device (before the loop).
migrate_account_device(dev, ent) ==
    LET account_device == async_get_device(dev, NewAccount)
        legacy_account_device == async_get_device(dev, OldAccount)
    IN  IF account_device = "none"
        THEN IF legacy_account_device # "none"
                /\ ENTRY_ID \in dev[legacy_account_device].config_entries
             THEN [dev |-> [dev EXCEPT ![legacy_account_device].identifier = NewAccount],
                   account_device_id |-> legacy_account_device]
             ELSE [dev |-> dev, account_device_id |-> "none"]
        ELSE IF legacy_account_device # "none"
                /\ legacy_account_device # account_device
                /\ ENTRY_ID \in dev[legacy_account_device].config_entries
                /\ may_remove(ent, legacy_account_device)
             THEN [dev |-> async_remove_device(dev, legacy_account_device),
                   account_device_id |-> account_device]
             ELSE [dev |-> dev, account_device_id |-> account_device]

\* _async_migrate_device_entries, the loop over the devices of the entry:
\* device_entries is the list taken when the loop starts, ids what is left
\* of it.
RECURSIVE migrate_devices(_, _, _, _, _)
migrate_devices(dev, ent, account_device_id, device_entries, ids) ==
    IF ids = << >> THEN [dev |-> dev, ent |-> ent]
    ELSE
      LET d == Head(ids)
          device_entry == device_entries[d]
          value == device_entry.identifier
          new_identifier == <<ENTRY_ID>> \o value
          existing_device == async_get_device(dev, new_identifier)
          skip == migrate_devices(dev, ent, account_device_id, device_entries, Tail(ids))
      IN  IF d = account_device_id THEN skip
          ELSE IF value = << >> THEN skip
          ELSE IF value = NewAccount THEN skip
          ELSE IF value = OldAccount
               THEN IF account_device_id # "none"
                    THEN IF may_remove(ent, d)
                         THEN migrate_devices(async_remove_device(dev, d), ent,
                                              account_device_id, device_entries, Tail(ids))
                         ELSE skip
                    ELSE migrate_devices([dev EXCEPT ![d].identifier = NewAccount], ent,
                                         d, device_entries, Tail(ids))
          ELSE IF already_migrated(value, ENTRY_ID)
               THEN IF account_device_id # "none"
                       /\ device_entry.via_device_id # account_device_id
                    THEN migrate_devices([dev EXCEPT ![d].via_device_id = account_device_id],
                                         ent, account_device_id, device_entries, Tail(ids))
                    ELSE skip
          ELSE IF existing_device # "none" /\ existing_device # d
               THEN migrate_devices(
                        async_remove_device(
                            [dev EXCEPT ![existing_device].via_device_id =
                                IF account_device_id # "none" THEN account_device_id ELSE @],
                            d),
                        reassign(ent, d, existing_device),
                        account_device_id, device_entries, Tail(ids))
          ELSE migrate_devices(
                   [dev EXCEPT ![d].identifier = new_identifier,
                               ![d].via_device_id =
                                   IF account_device_id # "none" THEN account_device_id ELSE @],
                   ent, account_device_id, device_entries, Tail(ids))

\* A setup of the entry runs _async_migrate_device_entries.
async_migrate_device_entries ==
    /\ migrations < MaxMigrations
    /\ migrations' = migrations + 1
    /\ LET account == migrate_account_device(device_registry, entity_entries)
           OfEntry(d) == account.dev[d].exists /\ ENTRY_ID \in account.dev[d].config_entries
           migrated == migrate_devices(account.dev, entity_entries,
                                       account.account_device_id, account.dev,
                                       SelectSeq(DeviceOrder, OfEntry))
       IN  /\ device_registry' = migrated.dev
           /\ entity_entries' = migrated.ent
    /\ UNCHANGED <<api, closed, expired, task, entry, coordinator, last_refresh, flow,
                   page, verdict, input, output, entity_registry>>

InitDevices ==
    /\ InitCommon
    /\ entry.scan_interval = DEFAULT_SCAN_INTERVAL
    /\ entry.retry_interval = DEFAULT_RETRY_INTERVAL
    /\ api = [c \in Clients |-> NewAPI("none")]
    /\ page = NoPage
    /\ verdict = "none"
    /\ input = << >>
    /\ output = << >>
    /\ entity_registry = << >>
    /\ migrations = 0
    /\ device_registry \in DeviceRegistries
    /\ entity_entries \in EntityEntries(device_registry)

NextDevices == async_migrate_device_entries

SpecDevices == InitDevices /\ [][NextDevices]_vars

\* An entity of the entry is attached to device d.
Attached(e, d) ==
    /\ entity_entries[e].exists
    /\ entity_entries[e].config_entry_id = ENTRY_ID
    /\ entity_entries[e].device_id = d

\* C25: a run of the device migration removes the legacy account device only
\* if no entity of the entry is attached to it, and a legacy SIM device only
\* with every entity of the entry that was attached to it now attached to the
\* device with the scoped identifier; after a run no entity of the entry is
\* attached to a device that does not exist.
C25_NoEntityOnRemovedDevice ==
    /\ [](migrations >= 1 =>
            \A e \in EntityIds, d \in DeviceIds :
                Attached(e, d) => device_registry[d].exists)
    /\ [][\A d \in DeviceIds :
            (device_registry[d].exists /\ ~device_registry'[d].exists) =>
                \A e \in EntityIds :
                    Attached(e, d) =>
                        /\ device_registry[d].identifier # OldAccount
                        /\ entity_entries'[e].device_id # d
                        /\ entity_entries'[e].device_id # "none"
                        /\ device_registry'[entity_entries'[e].device_id].exists
                        /\ device_registry'[entity_entries'[e].device_id].identifier
                             = <<ENTRY_ID>> \o device_registry[d].identifier]_vars

C25_Witness ==
    /\ migrations = 1
    /\ ~device_registry["d1"].exists
    /\ device_registry["d1"].identifier = <<"371">>
    /\ device_registry["d2"].exists
    /\ device_registry["d2"].identifier = <<ENTRY_ID, "371">>
    /\ device_registry["d3"].identifier = NewAccount
    /\ device_registry["d2"].via_device_id = "d3"
    /\ entity_entries["e1"] = [exists |-> TRUE, config_entry_id |-> ENTRY_ID,
                               device_id |-> "d2"]
    /\ entity_entries["e2"] = [exists |-> TRUE, config_entry_id |-> ENTRY_ID,
                               device_id |-> "d3"]

\* A legacy account device of the entry is kept because an entity of the
\* entry is still attached to it.
LegacyRetained ==
    \E d \in DeviceIds :
        /\ device_registry[d].exists
        /\ device_registry[d].identifier = OldAccount
        /\ ENTRY_ID \in device_registry[d].config_entries
        /\ \E e \in EntityIds : Attached(e, d)

\* C26: a run of the device migration on the registry that an earlier run
\* left, with no legacy account device retained by that run, changes no
\* identifier of a device and removes no device.
C26_SecondRunChangesNothing ==
    [][(migrations >= 1 /\ ~LegacyRetained) =>
          \A d \in DeviceIds :
              /\ device_registry'[d].exists = device_registry[d].exists
              /\ device_registry'[d].identifier = device_registry[d].identifier]_vars

C26_Witness ==
    /\ migrations = 2
    /\ ~device_registry["d1"].exists
    /\ device_registry["d1"].identifier = <<"371">>
    /\ device_registry["d2"].exists
    /\ device_registry["d2"].identifier = <<ENTRY_ID, "371">>
    /\ device_registry["d3"].exists
    /\ device_registry["d3"].identifier = NewAccount
    /\ \E e \in EntityIds : Attached(e, "d2")
====
